---- MODULE Spec2Model ----
(***************************************************************************)
(* A model of ppml_datasets.abstract_dataset_handler.AbstractDataset: the  *)
(* partition store (train / val / test / attack-train / attack-test), the  *)
(* pipeline builder (prepare_ds, prepare_datasets), the split/merge engine *)
(* (merge_all_datasets, resplit_datasets, split_val_from_train) and the    *)
(* statistics (get_class_distribution, calculate_class_weights,            *)
(* calculate_class_imbalance, get_dataset_count).                          *)
(*                                                                         *)
(* A tf.data.Dataset is a record: the samples it yields (a sample is a     *)
(* number that identifies its image; LabelOf gives its label), the         *)
(* cardinality its metadata reports, and the stages stacked on it.         *)
(* A Python exception is the "exc" field of the record of the last call.   *)
(***************************************************************************)
EXTENDS Integers, Sequences, FiniteSets, TLC

VARIABLES
    catalog,                \* what tfds holds under dataset_name: the splits
    config,                 \* constructor fields that are never reassigned
    augmentation,           \* the random_* fields
    class_names,
    train_val_test_split,
    ds_train, ds_val, ds_test,
    ds_attack_train, ds_attack_test,
    class_labels, class_counts, class_distribution,
    ds_info,                \* the dataset info dictionary
    pc,                     \* position inside prepare_datasets
    ncalls,                 \* how many calls the object has served
    call                    \* the last call: operation, arguments, result

vars == <<catalog, config, augmentation, class_names, train_val_test_split,
          ds_train, ds_val, ds_test, ds_attack_train, ds_attack_test,
          class_labels, class_counts, class_distribution, ds_info, pc, ncalls, call>>

partitions == <<ds_train, ds_val, ds_test>>
attacks == <<ds_attack_train, ds_attack_test>>
stats_cache == <<class_labels, class_counts, class_distribution>>
settings == <<catalog, config, augmentation, class_names, train_val_test_split>>

-----------------------------------------------------------------------------
(* Bounds of the model *)

MaxTrain == 2            \* samples a loaded train partition holds at most
MaxOther == 1            \* samples a loaded val / test partition holds at most
MaxLabel == 1            \* labels are 0..MaxLabel
MaxPool == 6             \* merge / resplit are explored on pools up to this size
MaxCalls == 4            \* calls explored on one dataset object
MaxClasses == 5          \* classes of a count vector given at construction
MaxCount == 4            \* samples per class of such a count vector
MaxBatch == 2            \* configured batch sizes are None, 1..MaxBatch

Labels == 0..MaxLabel

\* the label of sample s
LabelOf(s) == s % (MaxLabel + 1)

-----------------------------------------------------------------------------
(* Python values *)

None == [kind |-> "None"]
\* ds_info as field(default_factory=dict) makes it
EmptyDict == [kind |-> "dict"]

Unset == [kind |-> "Unset"]          \* a field(init=False) without default
PyInt(v) == [kind |-> "int", v |-> v]
PyBool(v) == [kind |-> "bool", v |-> v]
PyStr(v) == [kind |-> "str", v |-> v]
PyFunc(v) == [kind |-> "func", v |-> v]
PyTuple(v) == [kind |-> "tuple", v |-> v]

\* Python truthiness of the values prepare_ds tests with a bare "if"
Truthy(x) ==
    CASE x.kind = "None" -> FALSE
      [] x.kind = "bool" -> x.v
      [] x.kind = "str"  -> x.v # ""
      [] x.kind = "int"  -> x.v # 0
      [] OTHER           -> TRUE

Min(a, b) == IF a < b THEN a ELSE b

\* one more call is served
Called == ncalls < MaxCalls /\ ncalls' = ncalls + 1

\* math.ceil(a / b) for a >= 0, b > 0
CeilDiv(a, b) == (a + b - 1) \div b

RECURSIVE SumSeq(_)
SumSeq(s) == IF s = <<>> THEN 0 ELSE Head(s) + SumSeq(Tail(s))

Take(s, n) == SubSeq(s, 1, Min(n, Len(s)))
Drop(s, n) == SubSeq(s, Min(n, Len(s)) + 1, Len(s))

SeqsUpTo(S, lo, hi) == UNION {[1..n -> S] : n \in lo..hi}

-----------------------------------------------------------------------------
(* tf.data.Dataset *)

Ds(elems, card, stages) ==
    [kind |-> "ds", elems |-> elems, card |-> card, stages |-> stages]

\* a freshly loaded partition: its samples, exact cardinality, no stage yet
RawDs(elems) == Ds(elems, Len(elems), <<>>)

IsDs(d) == d.kind = "ds"

\* n consecutive samples, numbered from first
Samples(first, n) == [i \in 1..n |-> first + i - 1]

Stage(op, arg, layers, n) == [op |-> op, arg |-> arg, layers |-> layers, n |-> n]

\* ds.map(lambda x, y: (<arg>(x), y)): <arg> is the Sequential applied to x
DsMap(d, arg, layers) ==
    [d EXCEPT !.stages = Append(@, Stage("map", arg, layers, 0))]
\* ds.cache() / ds.cache(filename)
DsCache(d, filename) ==
    [d EXCEPT !.stages = Append(@, Stage("cache", filename, <<>>, 0))]
\* ds.shuffle(buffer_size, seed): lazy, the order is drawn at each traversal
DsShuffle(d, buffer_size) ==
    [d EXCEPT !.stages = Append(@, Stage("shuffle", "random_seed", <<>>, buffer_size))]
\* ds.batch(n): the short final batch is kept
DsBatch(d, n) ==
    [d EXCEPT !.stages = Append(@, Stage("batch", "", <<>>, n)),
              !.card = CeilDiv(@, n)]
DsPrefetch(d) ==
    [d EXCEPT !.stages = Append(@, Stage("prefetch", "AUTOTUNE", <<>>, 0))]
DsConcatenate(a, b) ==
    Ds(a.elems \o b.elems, a.card + b.card, a.stages)
DsTake(d, n) ==
    Ds(Take(d.elems, n), Min(d.card, n), d.stages)

-----------------------------------------------------------------------------
(* prepare_ds *)

PreprocessingLayers(convert_to_rgb, resize_rescale, preprocessing_func) ==
    (IF convert_to_rgb THEN <<"GrayscaleToRgb">> ELSE <<>>)
    \o (IF resize_rescale THEN <<"Resizing", "Rescaling">> ELSE <<>>)
    \o (IF Truthy(preprocessing_func) THEN <<"ModelPreprocessing">> ELSE <<>>)

AugmentationLayers(aug) ==
    (IF aug.random_flip THEN <<"RandomFlip">> ELSE <<>>)
    \o (IF aug.random_rotation THEN <<"RandomRotation">> ELSE <<>>)
    \o (IF aug.random_translation_width /\ aug.random_translation_height
        THEN <<"RandomTranslation">> ELSE <<>>)
    \o (IF aug.random_zoom THEN <<"RandomZoom">> ELSE <<>>)
    \o (IF aug.random_brightness THEN <<"RandomBrightness">> ELSE <<>>)

\* a plausible slip: augmentation mapped before batching, prefetch only when cached
prepare_ds_misordered(ds, resize_rescale, batch_size, convert_to_rgb, preprocessing_func, shuffle, augment, cache, aug) ==
    LET s1 == IF convert_to_rgb \/ resize_rescale \/ Truthy(preprocessing_func)
              THEN DsMap(ds, "preprocessing_layers",
                         PreprocessingLayers(convert_to_rgb, resize_rescale,
                                             preprocessing_func))
              ELSE ds
        s2 == IF Truthy(cache)
              THEN (IF cache.kind = "str" THEN DsCache(s1, cache.v)
                                          ELSE DsCache(s1, ""))
              ELSE s1
        s3 == IF shuffle THEN DsShuffle(s2, s2.card) ELSE s2
        s4 == IF augment
              THEN DsMap(s3, "augmentation_layers", AugmentationLayers(aug))
              ELSE s3
        s5 == IF batch_size # None THEN DsBatch(s4, batch_size.v) ELSE s4
    IN  IF Truthy(cache) THEN DsPrefetch(s5) ELSE s5

prepare_ds(ds, resize_rescale, batch_size, convert_to_rgb, preprocessing_func, shuffle, augment, cache, aug) ==
    LET s1 == IF convert_to_rgb \/ resize_rescale \/ Truthy(preprocessing_func)
              THEN DsMap(ds, "preprocessing_layers",
                         PreprocessingLayers(convert_to_rgb, resize_rescale,
                                             preprocessing_func))
              ELSE ds
        s2 == IF Truthy(cache)
              THEN (IF cache.kind = "str" THEN DsCache(s1, cache.v)
                                          ELSE DsCache(s1, ""))
              ELSE s1
        s3 == IF shuffle THEN DsShuffle(s2, s2.card) ELSE s2
        s4 == IF batch_size # None THEN DsBatch(s3, batch_size.v) ELSE s3
        s5 == IF augment
              THEN DsMap(s4, "augmentation_layers", AugmentationLayers(aug))
              ELSE s4
    IN  DsPrefetch(s5)

-----------------------------------------------------------------------------
(* prepare_datasets: one step per statement, in the order of the source *)

PrepareOrderTrainFirst == <<"train", "attack_train", "attack_test", "val", "test">>

PrepareOrder == <<"attack_train", "attack_test", "train", "val", "test">>

\* the keyword arguments each statement of prepare_datasets passes to prepare_ds
PrepareArgsAugmentEverywhere(target) ==
    IF target \in {"attack_train", "attack_test"}
    THEN [batch_size |-> PyInt(1), shuffle |-> config.shuffle,
          augment |-> config.augment_train]
    ELSE [batch_size |-> config.batch_size, shuffle |-> config.shuffle,
          augment |-> config.augment_train]

PrepareArgs(target) ==
    CASE target \in {"attack_train", "attack_test"} ->
            [batch_size |-> PyInt(1), shuffle |-> FALSE, augment |-> FALSE]
      [] target = "train" ->
            [batch_size |-> config.batch_size, shuffle |-> config.shuffle,
             augment |-> config.augment_train]
      [] OTHER ->
            [batch_size |-> config.batch_size, shuffle |-> FALSE, augment |-> FALSE]

\* the partition a statement reads
PrepareSource(target) ==
    CASE target \in {"attack_train", "train"} -> ds_train
      [] target \in {"attack_test", "test"}   -> ds_test
      [] OTHER                                -> ds_val

\* self.prepare_ds(<source>, cache=True, resize_rescale=True, ...)
Prepared(target) ==
    LET a == PrepareArgs(target)
    IN  prepare_ds(PrepareSource(target), TRUE, a.batch_size, config.convert_to_rgb,
                   config.preprocessing_function, a.shuffle, a.augment,
                   PyBool(TRUE), augmentation)

PosOf(target) == CHOOSE i \in 1..Len(PrepareOrder) : PrepareOrder[i] = target

NextPc(target) ==
    IF PosOf(target) = Len(PrepareOrder) THEN "idle" ELSE PrepareOrder[PosOf(target) + 1]

\* number of prepare_ds applications stacked on a partition (prefetch is unconditional)
PrepareCount(d) ==
    IF IsDs(d) THEN Cardinality({i \in 1..Len(d.stages) : d.stages[i].op = "prefetch"})
               ELSE 0

\* entry of prepare_datasets
PrepareDatasets ==
    /\ pc = "idle"
    /\ Called
    /\ IF IsDs(ds_train)
       THEN /\ pc' = PrepareOrder[1]
            /\ call' = [op |-> "prepare_datasets", exc |-> "none"]
       ELSE /\ pc' = pc
            /\ call' = [op |-> "prepare_datasets", exc |-> "AttributeError"]
    /\ UNCHANGED <<ds_info, settings, partitions, attacks, stats_cache>>

\* one statement of prepare_datasets
PrepareStatement ==
    /\ pc # "idle"
    /\ pc' = NextPc(pc)
    /\ ds_attack_train' = IF pc = "attack_train" THEN Prepared(pc) ELSE ds_attack_train
    /\ ds_attack_test' = IF pc = "attack_test" /\ ds_test # None
                         THEN Prepared(pc) ELSE ds_attack_test
    /\ ds_train' = IF pc = "train" THEN Prepared(pc) ELSE ds_train
    /\ ds_val' = IF pc = "val" /\ ds_val # None THEN Prepared(pc) ELSE ds_val
    /\ ds_test' = IF pc = "test" /\ ds_test # None THEN Prepared(pc) ELSE ds_test
    /\ UNCHANGED <<ds_info, settings, stats_cache, ncalls, call>>

AugmentationChoices ==
    {[random_flip |-> f, random_rotation |-> r, random_zoom |-> r,
      random_brightness |-> b, random_translation_width |-> w,
      random_translation_height |-> h] :
        f \in BOOLEAN, r \in {TRUE}, b \in {TRUE}, w \in BOOLEAN, h \in {TRUE}}

SetAugmentationParameter ==
    /\ pc = "idle"
    /\ Called
    /\ \E a \in AugmentationChoices :
          /\ a # augmentation
          /\ augmentation' = a
    /\ call' = [op |-> "set_augmentation_parameter", exc |-> "none"]
    /\ UNCHANGED <<ds_info, catalog, config, class_names, train_val_test_split,
                   partitions, attacks, stats_cache, pc>>

BatchSizes == {None} \cup {PyInt(n) : n \in 1..MaxBatch}

ConfigChoices ==
    [batch_size : BatchSizes, convert_to_rgb : BOOLEAN, augment_train : BOOLEAN,
     shuffle : BOOLEAN, is_tfds_ds : {TRUE}, builds_ds_info : {FALSE},
     preprocessing_function : {None, PyFunc("preprocess_input")}]

\* a constructed and loaded dataset, before any preparation
InitPrepare ==
    /\ catalog = [train |-> RawDs(Samples(1, MaxTrain + 1)), test |-> None, val |-> None]
    /\ config \in ConfigChoices
    /\ augmentation \in AugmentationChoices
    /\ class_names = None
    /\ train_val_test_split = Unset
    /\ ds_train = RawDs(Samples(1, MaxTrain + 1))
    /\ ds_val \in {None, RawDs(Samples(MaxTrain + 2, 1))}
    /\ ds_test \in {None, RawDs(Samples(MaxTrain + 3, 1))}
    /\ ds_attack_train = None
    /\ ds_attack_test = None
    /\ class_labels = None
    /\ class_counts = None
    /\ class_distribution = None
    /\ ds_info = EmptyDict
    /\ pc = "idle"
    /\ ncalls = 0
    /\ call = [op |-> "load_dataset", exc |-> "none"]

NextPrepare ==
    \/ PrepareDatasets
    \/ PrepareStatement
    \/ SetAugmentationParameter

SpecPrepare == InitPrepare /\ [][NextPrepare]_vars

-----------------------------------------------------------------------------
(* The stages of a pipeline, as the claims speak of them *)

StageKind(st) ==
    IF st.op = "map"
    THEN (IF st.arg = "augmentation_layers" THEN "augment" ELSE "preprocess")
    ELSE st.op

StageRank(st) ==
    CASE StageKind(st) = "preprocess" -> 1
      [] StageKind(st) = "cache"      -> 2
      [] StageKind(st) = "shuffle"    -> 3
      [] StageKind(st) = "batch"      -> 4
      [] StageKind(st) = "augment"    -> 5
      [] OTHER                        -> 6

LayerRank(l) ==
    CASE l = "GrayscaleToRgb" -> 1
      [] l = "Resizing"       -> 2
      [] l = "Rescaling"      -> 3
      [] OTHER                -> 4

HasStage(d, kind) == \E i \in 1..Len(d.stages) : StageKind(d.stages[i]) = kind

StagesOf(d, kind) == {i \in 1..Len(d.stages) : StageKind(d.stages[i]) = kind}

\* d is batched exactly as batch_size says: not at all for None, once by its value
BatchedBy(d, batch_size) ==
    IF batch_size = None
    THEN ~HasStage(d, "batch")
    ELSE /\ Cardinality(StagesOf(d, "batch")) = 1
         /\ \A i \in StagesOf(d, "batch") : d.stages[i].n = batch_size.v

AttackRecipe(src) ==
    prepare_ds(src, TRUE, PyInt(1), config.convert_to_rgb,
               config.preprocessing_function, FALSE, FALSE, PyBool(TRUE), augmentation)

-----------------------------------------------------------------------------
(* prepare_ds on its own: every combination of its arguments *)

CacheChoices == {PyBool(FALSE), PyBool(TRUE), PyStr("/tmp/cache")}

PrepareDsArgs ==
    [ds : {RawDs(Samples(1, MaxTrain + 1))},
     resize_rescale : BOOLEAN, batch_size : BatchSizes, convert_to_rgb : BOOLEAN,
     preprocessing_func : {None, PyFunc("preprocess_input")},
     shuffle : BOOLEAN, augment : BOOLEAN, cache : CacheChoices]

InitPrepareDs ==
    /\ catalog = [train |-> RawDs(Samples(1, MaxTrain + 1)), test |-> None, val |-> None]
    /\ config = [batch_size |-> None, convert_to_rgb |-> FALSE,
                 augment_train |-> FALSE, shuffle |-> FALSE, is_tfds_ds |-> TRUE,
                 builds_ds_info |-> FALSE, preprocessing_function |-> None]
    /\ augmentation \in AugmentationChoices
    /\ class_names = None
    /\ train_val_test_split = Unset
    /\ ds_train = Unset
    /\ ds_val = None
    /\ ds_test = None
    /\ ds_attack_train = None
    /\ ds_attack_test = None
    /\ class_labels = None
    /\ class_counts = None
    /\ class_distribution = None
    /\ ds_info = EmptyDict
    /\ pc = "idle"
    /\ ncalls = 0
    /\ \E a \in PrepareDsArgs : call = [op |-> "prepare_ds", args |-> a, ret |-> None]

\* the call of prepare_ds with the drawn arguments
PrepareDsCall ==
    /\ Called
    /\ call.op = "prepare_ds"
    /\ call.ret = None
    /\ LET a == call.args
       IN  call' = [call EXCEPT !.ret =
                       prepare_ds(a.ds, a.resize_rescale, a.batch_size,
                                  a.convert_to_rgb, a.preprocessing_func,
                                  a.shuffle, a.augment, a.cache, augmentation)]
    /\ UNCHANGED <<ds_info, settings, partitions, attacks, stats_cache, pc>>

NextPrepareDs == PrepareDsCall

SpecPrepareDs == InitPrepareDs /\ [][NextPrepareDs]_vars

\* the stages a call added on top of its input
AppliedStages(d, src) == SubSeq(d.stages, Len(src.stages) + 1, Len(d.stages))

\* C3: for every combination of arguments the applied stages are exactly the enabled
\* ones, in the order preprocessing map (grayscale-to-RGB, resize, rescale, model
\* preprocessing; skipped only when none is requested), cache, shuffle, batch,
\* augmentation, prefetch; prefetch is always applied and always last.
StagesInStrictOrder ==
    (call.op = "prepare_ds" /\ call.ret # None) =>
        LET a == call.args
            st == AppliedStages(call.ret, a.ds)
            has(kind) == \E i \in 1..Len(st) : StageKind(st[i]) = kind
        IN  /\ \A i \in 1..Len(st), j \in 1..Len(st) :
                  i < j => StageRank(st[i]) < StageRank(st[j])
            /\ Len(st) >= 1 /\ StageKind(st[Len(st)]) = "prefetch"
            /\ has("preprocess") <=>
                  (a.convert_to_rgb \/ a.resize_rescale \/ a.preprocessing_func # None)
            /\ has("cache") <=> (a.cache # PyBool(FALSE))
            /\ has("shuffle") <=> a.shuffle
            /\ has("batch") <=> (a.batch_size # None)
            /\ has("augment") <=> a.augment
            /\ \A i \in 1..Len(st) :
                  /\ StageKind(st[i]) = "batch" => st[i].n = a.batch_size.v
                  /\ StageKind(st[i]) = "cache" =>
                        st[i].arg = (IF a.cache.kind = "str" THEN a.cache.v ELSE "")
                  /\ StageKind(st[i]) = "preprocess" =>
                        LET l == st[i].layers
                            in(x) == \E k \in 1..Len(l) : l[k] = x
                        IN  /\ \A k \in 1..Len(l), m \in 1..Len(l) :
                                  k < m => LayerRank(l[k]) < LayerRank(l[m])
                            /\ in("GrayscaleToRgb") <=> a.convert_to_rgb
                            /\ in("Resizing") <=> a.resize_rescale
                            /\ in("Rescaling") <=> a.resize_rescale
                            /\ in("ModelPreprocessing") <=> (a.preprocessing_func # None)

\* C3 witness: a call with every stage enabled and a cache file name has returned
StagesInStrictOrderWitness ==
    /\ call.op = "prepare_ds"
    /\ call.ret # None
    /\ call.args.convert_to_rgb /\ call.args.resize_rescale
    /\ call.args.preprocessing_func # None
    /\ call.args.cache.kind = "str"
    /\ call.args.shuffle /\ call.args.augment
    /\ call.args.batch_size = PyInt(MaxBatch)
    /\ Len(call.ret.stages) = 6

-----------------------------------------------------------------------------
(* tf.keras.utils.split_dataset, as resplit_datasets and split_val_from_train *)
(* call it: a float size in quarters (n stands for n/4, exact in binary     *)
(* floating point), Python's round (half to even), ValueError for a size    *)
(* outside (0,1) or an empty side.  With shuffle=True it runs               *)
(* random.seed(seed); random.shuffle(samples) with seed = random_seed = 42. *)

Quarter == 4

\* round(n / d), Python 3: ties go to the even integer
RoundHalfEven(n, d) ==
    LET q == n \div d
        r == n % d
    IN  IF 2 * r < d THEN q
        ELSE IF 2 * r > d THEN q + 1
        ELSE IF q % 2 = 0 THEN q ELSE q + 1

CountOf(s, x) == Cardinality({i \in 1..Len(s) : s[i] = x})

\* random.seed(42); random.shuffle(l) of CPython on l = [1, ..., n], n = 1..8:
\* position i of the shuffled list holds element SeededShuffle[n][i]
SeededShuffle ==
    << <<1>>, <<2, 1>>, <<2, 1, 3>>, <<3, 2, 4, 1>>, <<4, 2, 3, 5, 1>>,
       <<4, 2, 3, 5, 1, 6>>, <<2, 4, 5, 3, 7, 1, 6>>, <<4, 5, 7, 8, 3, 6, 1, 2>> >>

Shuffled(s) == [i \in 1..Len(s) |-> s[SeededShuffle[Len(s)][i]]]

SplitError == [exc |-> "ValueError", left |-> <<>>, right |-> <<>>]

\* split_dataset(elems, left_size=num/den, shuffle=shuffle)
SplitDataset(elems, num, den, shuffle) ==
    LET left == RoundHalfEven(num * Len(elems), den)
        t == IF shuffle THEN Shuffled(elems) ELSE elems
    IN  IF num <= 0 \/ num >= den \/ left = 0 \/ left = Len(elems)
        THEN SplitError
        ELSE [exc |-> "none", left |-> Take(t, left), right |-> Drop(t, left)]

\* split_dataset(elems, right_size=num/den, shuffle=True)
SplitDatasetRight(elems, num, den) ==
    LET right == RoundHalfEven(num * Len(elems), den)
        left == Len(elems) - right
    IN  IF num <= 0 \/ num >= den \/ right = 0 \/ left = 0
        THEN SplitError
        ELSE [exc |-> "none", left |-> Take(Shuffled(elems), left),
              right |-> Drop(Shuffled(elems), left)]

-----------------------------------------------------------------------------
(* load_dataset *)

\* what tfds.load can return: a train split of nt samples and, when their sizes
\* are not 0, a test split and a val split
CatalogChoices ==
    {[train |-> RawDs(Samples(1, nt)),
      test |-> IF nte = 0 THEN None ELSE RawDs(Samples(nt + 1, nte)),
      val |-> IF nv = 0 THEN None ELSE RawDs(Samples(nt + nte + 1, nv))] :
        nt \in 1..MaxTrain, nte \in 0..MaxOther, nv \in 0..MaxOther}

\* a filter predicate over (image, label): keep the samples whose label is in v
FilterChoices == {None, PyFunc({0}), PyFunc(Labels \ {0})}

RECURSIVE SelectSeq2(_, _)
SelectSeq2(s, keep) ==
    IF s = <<>> THEN <<>>
    ELSE (IF LabelOf(Head(s)) \in keep THEN <<Head(s)>> ELSE <<>>)
         \o SelectSeq2(Tail(s), keep)

\* ds.filter(fn_filter) with the cardinality of the unfiltered partition kept
FilteredStaleCardinality(d, fn_filter) ==
    Ds(SelectSeq2(d.elems, fn_filter.v), d.card, d.stages)

\* ds.filter(fn_filter), then the count by traversal, then assert_cardinality(count)
Filtered(d, fn_filter) ==
    LET kept == SelectSeq2(d.elems, fn_filter.v)
    IN  Ds(kept, Len(kept), d.stages)

AfterFilter(d, fn_filter) ==
    IF fn_filter # None /\ d # None THEN Filtered(d, fn_filter) ELSE d

-----------------------------------------------------------------------------
(* merge_all_datasets, resplit_datasets, split_val_from_train *)

\* AbstractDataset declares no field percentage_loaded_data: reading
\* self.percentage_loaded_data raises AttributeError
percentage_loaded_data == Unset

PercentageChoices == {100, 50, 75}

\* ds = self.ds_train, then test and validation concatenated when present
MergedValBeforeTest ==
    LET a == IF ds_val # None THEN DsConcatenate(ds_train, ds_val) ELSE ds_train
    IN  IF ds_test # None THEN DsConcatenate(a, ds_test) ELSE a

Merged ==
    LET a == IF ds_test # None THEN DsConcatenate(ds_train, ds_test) ELSE ds_train
    IN  IF ds_val # None THEN DsConcatenate(a, ds_val) ELSE a

PoolSize ==
    (IF IsDs(ds_train) THEN Len(ds_train.elems) ELSE 0)
    + (IF IsDs(ds_test) THEN Len(ds_test.elems) ELSE 0)
    + (IF IsDs(ds_val) THEN Len(ds_val.elems) ELSE 0)

\* new_ds_size = math.ceil(len(ds) * (self.percentage_loaded_data / 100.0))
NewDsSize(d) == CeilDiv(d.card * percentage_loaded_data.v, 100)

MergeAllDatasets ==
    /\ pc = "idle"
    /\ Called
    /\ PoolSize <= MaxPool
    /\ \E p \in PercentageChoices :
          IF ds_train = Unset
          THEN /\ call' = [op |-> "merge_all_datasets", p |-> p, exc |-> "AttributeError"]
               /\ UNCHANGED partitions
          ELSE IF p # 100 /\ percentage_loaded_data = Unset
          THEN /\ call' = [op |-> "merge_all_datasets", p |-> p, exc |-> "AttributeError"]
               /\ UNCHANGED partitions
          ELSE /\ ds_train' = IF p # 100 THEN DsTake(Merged, NewDsSize(Merged)) ELSE Merged
               /\ call' = [op |-> "merge_all_datasets", p |-> p, exc |-> "none"]
               /\ UNCHANGED <<ds_val, ds_test>>
    /\ UNCHANGED <<ds_info, settings, attacks, stats_cache, pc>>

\* split fractions in quarters: <<train, val, test>>
SplitChoices == {PyTuple(<<2, 1, 1>>), PyTuple(<<2, 2, 0>>), PyTuple(<<2, 0, 2>>),
                 PyTuple(<<4, 0, 0>>)}
SplitArguments == {PyTuple(<<2, 1, 1>>), PyTuple(<<3, 1, 0>>)}

ResplitRecord(split, p, exc) ==
    [op |-> "resplit_datasets", split |-> split, p |-> p, exc |-> exc]

\* the fractions resplit_datasets splits by: self.train_val_test_split
ResplitFractions(split) == train_val_test_split

\* whether the second split_dataset call of resplit_datasets shuffles
SecondSplitShufflesToo == TRUE

SecondSplitShuffles == FALSE

ResplitDatasets ==
    /\ pc = "idle"
    /\ Called
    /\ PoolSize <= MaxPool
    /\ \E split \in SplitArguments, p \in PercentageChoices :
          IF ds_train = Unset
             \/ (p # 100 /\ percentage_loaded_data = Unset)
             \/ ResplitFractions(split) = Unset
          THEN /\ call' = ResplitRecord(split, p, "AttributeError")
               /\ UNCHANGED partitions
          ELSE LET ds == IF p # 100 THEN DsTake(Merged, NewDsSize(Merged)) ELSE Merged
                   train_split == ResplitFractions(split).v[1]
                   val_split == ResplitFractions(split).v[2]
                   test_split == ResplitFractions(split).v[3]
                   first == SplitDataset(ds.elems, train_split, Quarter, TRUE)
                   second == SplitDataset(first.right, val_split, val_split + test_split,
                                          SecondSplitShuffles)
               IN     IF first.exc # "none"
                      THEN /\ call' = ResplitRecord(split, p, first.exc)
                           /\ UNCHANGED partitions
                      ELSE /\ ds_train' = RawDs(first.left)
                           /\ IF val_split = 0
                              THEN /\ ds_test' = RawDs(first.right)
                                   /\ ds_val' = ds_val
                                   /\ call' = ResplitRecord(split, p, "none")
                              ELSE IF test_split = 0
                              THEN /\ ds_val' = RawDs(first.right)
                                   /\ ds_test' = ds_test
                                   /\ call' = ResplitRecord(split, p, "none")
                              ELSE    /\ call' = ResplitRecord(split, p, second.exc)
                                      /\ IF second.exc # "none"
                                         THEN UNCHANGED <<ds_val, ds_test>>
                                         ELSE /\ ds_val' = RawDs(second.left)
                                              /\ ds_test' = RawDs(second.right)
    /\ UNCHANGED <<ds_info, settings, attacks, stats_cache, pc>>

ValSplitChoices == {1, 2}

SplitValFromTrain ==
    /\ pc = "idle"
    /\ Called
    /\ IsDs(ds_train) => Len(ds_train.elems) <= Len(SeededShuffle)
    /\ \E val_split \in ValSplitChoices :
          IF ds_train = Unset
          THEN /\ call' = [op |-> "split_val_from_train", val_split |-> val_split,
                           exc |-> "AttributeError", ret |-> None]
               /\ UNCHANGED partitions
          ELSE LET out == SplitDatasetRight(ds_train.elems, val_split, Quarter)
               IN IF out.exc # "none"
                  THEN /\ call' = [op |-> "split_val_from_train", val_split |-> val_split,
                                   exc |-> out.exc, ret |-> None]
                       /\ UNCHANGED partitions
                  ELSE /\ ds_train' = RawDs(out.left)
                       /\ ds_val' = RawDs(out.right)
                       /\ ds_test' = ds_test
                       /\ call' = [op |-> "split_val_from_train", val_split |-> val_split,
                                   exc |-> "none",
                                   ret |-> <<Len(out.left), Len(out.right)>>]
    /\ UNCHANGED <<ds_info, settings, attacks, stats_cache, pc>>

\* get_dataset_count(): a defaultdict(int), so an absent partition reads as 0
\* get_dataset_count with the val and test partitions taken for one another
DatasetCountOfSwapped(train, val, test) ==
    [k \in {"train", "val", "test"} |->
        CASE k = "train" -> IF train # None THEN train.card ELSE 0
          [] k = "val"   -> IF test # None THEN test.card ELSE 0
          [] OTHER       -> IF val # None THEN val.card ELSE 0]

DatasetCountOf(train, val, test) ==
    [k \in {"train", "val", "test"} |->
        CASE k = "train" -> IF train # None THEN train.card ELSE 0
          [] k = "val"   -> IF val # None THEN val.card ELSE 0
          [] OTHER       -> IF test # None THEN test.card ELSE 0]

get_dataset_count == DatasetCountOf(ds_train, ds_val, ds_test)

GetDatasetCount ==
    /\ pc = "idle"
    /\ Called
    /\ call' = IF ds_train = Unset
               THEN [op |-> "get_dataset_count", exc |-> "AttributeError", ret |-> None]
               ELSE [op |-> "get_dataset_count", exc |-> "none", ret |-> get_dataset_count]
    /\ UNCHANGED <<ds_info, settings, partitions, attacks, stats_cache, pc>>

-----------------------------------------------------------------------------
(* Statistics: get_class_distribution, calculate_class_weights,             *)
(* calculate_class_imbalance.  The partitions of this part are unbatched,   *)
(* so the label traversal np.fromiter(ds.map(lambda _, y: y), int) yields   *)
(* the labels of the samples in order.                                      *)

Arr(v) == [kind |-> "ndarray", v |-> v]
List(v) == [kind |-> "list", v |-> v]

RECURSIVE SortedSeq(_)
SortedSeq(S) ==
    IF S = {} THEN <<>>
    ELSE LET m == CHOOSE x \in S : \A y \in S : x <= y
         IN  <<m>> \o SortedSeq(S \ {m})

\* np.unique(y, return_counts=True)
UniqueLabels(y) == SortedSeq({y[i] : i \in 1..Len(y)})
UniqueCounts(y) == [i \in 1..Len(UniqueLabels(y)) |-> CountOf(y, UniqueLabels(y)[i])]

Cached(force) ==
    /\ class_counts # None
    /\ class_labels # None
    /\ class_distribution # None
    /\ ~force

\* get_class_distribution returns the cached triple whatever ds is
ServedFromCache(ds, force) == Cached(force)

\* get_class_distribution(ds, force_recalcuation) on an object whose train
\* partition is train: the exception, the returned triple, and the three fields
\* after the call
ClassDistributionOf(train, ds, force) ==
    IF ServedFromCache(ds, force)
    THEN [exc |-> "none",
          ret |-> <<class_labels.v, class_counts.v, class_distribution.v>>,
          labels |-> class_labels, counts |-> class_counts,
          distribution |-> class_distribution]
    ELSE LET src == IF ds # None THEN ds ELSE train
         IN  IF src = Unset
             THEN [exc |-> "AttributeError", ret |-> None,
                   labels |-> class_labels, counts |-> class_counts,
                   distribution |-> class_distribution]
             ELSE LET y_train == [i \in 1..Len(src.elems) |-> LabelOf(src.elems[i])]
                  IN  [exc |-> "none",
                       ret |-> <<UniqueLabels(y_train), UniqueCounts(y_train), y_train>>,
                       labels |-> Arr(UniqueLabels(y_train)),
                       counts |-> Arr(UniqueCounts(y_train)),
                       distribution |-> Arr(y_train)]

\* get_class_distribution on the object as it is
ClassDistribution(ds, force) == ClassDistributionOf(ds_train, ds, force)

\* the ds argument a caller passes: nothing, self.ds_val or self.ds_test
PassedDs(which) ==
    CASE which = "val"  -> ds_val
      [] which = "test" -> ds_test
      [] OTHER          -> None

GetClassDistribution ==
    /\ pc = "idle"
    /\ Called
    /\ \E which \in {"omitted", "val", "test"}, force \in BOOLEAN :
          LET r == ClassDistribution(PassedDs(which), force)
          IN  /\ class_labels' = r.labels
              /\ class_counts' = r.counts
              /\ class_distribution' = r.distribution
              /\ call' = [op |-> "get_class_distribution", ds |-> which,
                          force |-> force, exc |-> r.exc, ret |-> r.ret]
    /\ UNCHANGED <<ds_info, settings, partitions, attacks, pc>>

\* dictionary keys: the raw label y, or the string f"{class_names[y]}({y})"
RawKey(y) == [kind |-> "int", v |-> y]
NamedKey(names, y) == [kind |-> "str", name |-> names[y + 1], y |-> y]

\* compute_class_weight('balanced', classes=np.unique(y), y=y):
\* n_samples / (n_classes * count(c)), kept as a fraction
BalancedWeights(y) ==
    [i \in 1..Len(UniqueLabels(y)) |->
        [num |-> Len(y), den |-> Len(UniqueLabels(y)) * UniqueCounts(y)[i]]]

\* the class_weights dictionary: with matching class names every weight is stored
\* under the key of y, the last label of the counts loop; otherwise
\* dict(enumerate(weights))
ClassWeightsDict(labels, weights, names) ==
    IF names # None /\ Len(names.v) = Len(labels)
    THEN (IF Len(weights) = 0
          THEN <<>>
          ELSE [k \in {NamedKey(names.v, labels[Len(labels)])} |-> weights[Len(weights)]])
    ELSE [k \in {RawKey(i - 1) : i \in 1..Len(weights)} |->
             weights[CHOOSE i \in 1..Len(weights) : RawKey(i - 1) = k]]

ClassCountsDict(labels, counts, names) ==
    IF names # None /\ Len(names.v) = Len(labels)
    THEN [k \in {NamedKey(names.v, labels[i]) : i \in 1..Len(labels)} |->
             counts[CHOOSE i \in 1..Len(labels) : NamedKey(names.v, labels[i]) = k]]
    ELSE [k \in {RawKey(labels[i]) : i \in 1..Len(labels)} |->
             counts[CHOOSE i \in 1..Len(labels) : RawKey(labels[i]) = k]]

\* compute_class_weight('balanced', ...) on an empty label array: what scikit-learn
\* does with it is not fixed by this repository, it returns no weight or raises
EmptyWeightOutcomes == {"none", "IndexError"}

\* calculate_class_weights() after its get_class_distribution call returned r,
\* with the outcome compute_class_weight has on an empty label array: the
\* exception and the returned pair of dictionaries
ClassWeightsOf(r, on_empty) ==
    IF r.exc # "none"
    THEN [exc |-> r.exc, ret |-> None]
    ELSE LET labels == r.ret[1]
             counts == r.ret[2]
             named == class_names # None /\ Len(class_names.v) = Len(labels)
         IN  IF named /\ \E i \in 1..Len(labels) : labels[i] + 1 > Len(class_names.v)
             THEN [exc |-> "IndexError", ret |-> None]
             ELSE IF Len(r.ret[3]) = 0 /\ on_empty # "none"
             THEN [exc |-> on_empty, ret |-> None]
             ELSE [exc |-> "none",
                   ret |-> <<ClassCountsDict(labels, counts, class_names),
                             ClassWeightsDict(labels, BalancedWeights(r.ret[3]),
                                              class_names)>>]

\* calculate_class_weights()
CalculateClassWeights ==
    /\ pc = "idle"
    /\ Called
    /\ \E on_empty \in EmptyWeightOutcomes :
          LET r == ClassDistribution(None, FALSE)
          IN  /\ class_labels' = r.labels
              /\ class_counts' = r.counts
              /\ class_distribution' = r.distribution
              /\ call' = [op |-> "calculate_class_weights",
                          exc |-> ClassWeightsOf(r, on_empty).exc,
                          ret |-> ClassWeightsOf(r, on_empty).ret]
    /\ UNCHANGED <<ds_info, settings, partitions, attacks, pc>>

\* np.log(n) * 10^4 for n = 1, 2, ..., 30
LnScaled ==
    <<0, 6931, 10986, 13863, 16094, 17918, 19459, 20794, 21972, 23026, 23979, 24849,
      25649, 26391, 27081, 27726, 28332, 28904, 29444, 29957, 30445, 30910, 31355,
      31781, 32189, 32581, 32958, 33322, 33673, 34012>>

\* H / np.log(k) for k = 1, ..., 8 classes of equal counts, evaluated in IEEE-754
\* double arithmetic as lines 425-430 evaluate it (c / n is the double nearest to
\* 1/k, log is rounded to the nearest double): the deviation of the result from
\* 1.0, in units of 2^-53.  The first entry (k = 1, nan) is not a deviation.
BalancedRounding == <<0, 0, -2, 0, 2, -1, -1, 0>>

NaN == [kind |-> "float", nan |-> TRUE, milli |-> 0]
Float(milli) == [kind |-> "float", nan |-> FALSE, milli |-> milli]

\* the double 1.0 + ulps * 2^-53
NearOne(ulps) == [kind |-> "float", nan |-> FALSE, milli |-> 1000, ulps |-> ulps]

\* the entropy H itself, not divided by np.log(k), in thousandths
ClassImbalanceUnnormalised(counts) ==
    IF Len(counts) = 1 THEN NaN
    ELSE IF Len(counts) = 0 THEN Float(0)
    ELSE Float(((SumSeq(counts) * LnScaled[SumSeq(counts)]
                 - SumSeq([i \in 1..Len(counts) |-> counts[i] * LnScaled[counts[i]]]))
                * 1000) \div (SumSeq(counts) * 10000))

\* B = H / np.log(k), H = -sum((c/n) * log(c/n)), in thousandths:
\* H = (n ln n - sum c ln c) / n.  With k = 1 it is -0.0 / 0.0, the float nan
\* (numpy divides without raising); with k = 0 it is -0.0 / -inf = 0.0; with
\* k >= 2 equal counts it is the double next to 1.0 that BalancedRounding gives
ClassImbalance(counts) ==
    IF Len(counts) = 1 THEN NaN
    ELSE IF Len(counts) = 0 THEN Float(0)
    ELSE IF \A i \in 1..Len(counts) : counts[i] = counts[1]
    THEN NearOne(BalancedRounding[Len(counts)])
    ELSE Float(((SumSeq(counts) * LnScaled[SumSeq(counts)]
                 - SumSeq([i \in 1..Len(counts) |-> counts[i] * LnScaled[counts[i]]]))
                * 1000) \div (SumSeq(counts) * LnScaled[Len(counts)]))

\* calculate_class_imbalance()
CalculateClassImbalance ==
    /\ pc = "idle"
    /\ Called
    /\ LET r == ClassDistribution(None, FALSE)
       IN  /\ class_labels' = r.labels
           /\ class_counts' = r.counts
           /\ class_distribution' = r.distribution
           /\ call' = IF r.exc # "none"
                      THEN [op |-> "calculate_class_imbalance", exc |-> r.exc, ret |-> None]
                      ELSE [op |-> "calculate_class_imbalance", exc |-> "none",
                            ret |-> ClassImbalance(r.ret[2])]
    /\ UNCHANGED <<ds_info, settings, partitions, attacks, pc>>

AllNames == <<"zero", "one", "two", "three">>

ClassNamesChoices == {List(SubSeq(AllNames, 1, n)) : n \in 1..Min(MaxLabel + 1, Len(AllNames))}

SetClassNames ==
    /\ pc = "idle"
    /\ Called
    /\ \E names \in ClassNamesChoices :
          /\ class_names # names
          /\ class_names' = names
    /\ call' = [op |-> "set_class_names", exc |-> "none"]
    /\ UNCHANGED <<ds_info, catalog, config, augmentation, train_val_test_split,
                   partitions, attacks, stats_cache, pc>>

-----------------------------------------------------------------------------
(* calculate_data_entropy, build_ds_info, load_dataset *)

\* calculate_data_entropy() on the train partition: the entropies are a function
\* of the images traversed; max() of the empty list raises ValueError
DataEntropy(train) ==
    IF Len(train.elems) = 0
    THEN [exc |-> "ValueError", ret |-> None]
    ELSE [exc |-> "none", ret |-> [kind |-> "entropy", of |-> train.elems]]

\* build_ds_info() on an object whose partitions are train, val, test, with the
\* outcome compute_class_weight has on an empty label array: the exception, the
\* ds_info dictionary and the three cached fields after the call.
\* The keys name, dataset_img_shape and model_img_shape copy fields that are
\* never reassigned.
BuildDsInfoOf(train, val, test, on_empty) ==
    LET r == ClassDistributionOf(train, None, FALSE)
        w == ClassWeightsOf(r, on_empty)
        ds_count == DatasetCountOf(train, val, test)
        Raised(e) == [exc |-> e, info |-> ds_info, labels |-> r.labels,
                      counts |-> r.counts, distribution |-> r.distribution]
    IN  IF w.exc # "none" THEN Raised(w.exc)
        ELSE IF train = Unset THEN Raised("AttributeError")
        ELSE IF DataEntropy(train).exc # "none" THEN Raised(DataEntropy(train).exc)
        ELSE [exc |-> "none",
              info |-> [kind |-> "dict",
                        total_count |-> ds_count["train"] + ds_count["val"]
                                        + ds_count["test"],
                        train_count |-> ds_count["train"],
                        val_count |-> ds_count["val"],
                        test_count |-> ds_count["test"],
                        classes |-> Cardinality(DOMAIN w.ret[1]),
                        class_imbalance |-> ClassImbalance(r.ret[2]),
                        class_counts |-> w.ret[1],
                        class_weights |-> w.ret[2],
                        entropy |-> DataEntropy(train).ret],
              labels |-> r.labels, counts |-> r.counts,
              distribution |-> r.distribution]

\* build_ds_info(), called as tests/dataset_loading_tests.py calls it: on
\* partitions that prepare_datasets has not replaced yet
BuildDsInfo ==
    /\ pc = "idle"
    /\ Called
    /\ PrepareCount(ds_train) = 0
    /\ \E on_empty \in EmptyWeightOutcomes :
          LET b == BuildDsInfoOf(ds_train, ds_val, ds_test, on_empty)
          IN  /\ ds_info' = b.info
              /\ class_labels' = b.labels
              /\ class_counts' = b.counts
              /\ class_distribution' = b.distribution
              /\ call' = [op |-> "build_ds_info", exc |-> b.exc]
    /\ UNCHANGED <<settings, partitions, attacks, pc>>

\* __load_from_tfds prints "Cannot load dataset from tfds ..." and returns when
\* the object is not a tfds dataset
LoadFromTfdsWarns == ~config.is_tfds_ds

\* _load_dataset calls __load_from_tfds only when the object is a tfds dataset
LoadWarns == config.is_tfds_ds /\ LoadFromTfdsWarns

\* a partition after _load_dataset
AfterLoad(split, current) == IF config.is_tfds_ds THEN split ELSE current

\* load_dataset(fn_filter): _load_dataset, then build_ds_info when builds_ds_info
\* is set, then the filter on the partitions that are present.  The catalog has a
\* train split and, optionally, val and test splits.
LoadDataset ==
    /\ pc = "idle"
    /\ Called
    /\ \E fn_filter \in FilterChoices, on_empty \in EmptyWeightOutcomes :
          LET train == AfterLoad(catalog.train, ds_train)
              test == AfterLoad(catalog.test, ds_test)
              val == AfterLoad(catalog.val, ds_val)
              b == IF config.builds_ds_info
                   THEN BuildDsInfoOf(train, val, test, on_empty)
                   ELSE [exc |-> "none", info |-> ds_info, labels |-> class_labels,
                         counts |-> class_counts, distribution |-> class_distribution]
              exc == IF b.exc # "none" THEN b.exc
                     ELSE IF fn_filter # None /\ train = Unset THEN "AttributeError"
                     ELSE "none"
          IN  /\ ds_train' = IF exc = "none" THEN AfterFilter(train, fn_filter) ELSE train
              /\ ds_test' = IF exc = "none" THEN AfterFilter(test, fn_filter) ELSE test
              /\ ds_val' = IF exc = "none" THEN AfterFilter(val, fn_filter) ELSE val
              /\ ds_info' = b.info
              /\ class_labels' = b.labels
              /\ class_counts' = b.counts
              /\ class_distribution' = b.distribution
              /\ call' = [op |-> "load_dataset", fn_filter |-> fn_filter,
                          exc |-> exc, warned |-> LoadWarns]
    /\ UNCHANGED <<settings, attacks, pc>>

-----------------------------------------------------------------------------
(* The dataset object from construction on *)

Constructed ==
    /\ catalog \in CatalogChoices
    /\ augmentation = [random_flip |-> TRUE, random_rotation |-> TRUE,
                       random_zoom |-> TRUE, random_brightness |-> TRUE,
                       random_translation_width |-> TRUE,
                       random_translation_height |-> TRUE]
    /\ class_names = None
    /\ ds_train = Unset
    /\ ds_val = None
    /\ ds_test = None
    /\ ds_attack_train = None
    /\ ds_attack_test = None
    /\ class_labels = None
    /\ class_counts = None
    /\ class_distribution = None
    /\ ds_info = EmptyDict
    /\ pc = "idle"
    /\ ncalls = 0
    /\ call = [op |-> "__init__", exc |-> "none"]

\* loading, splitting and merging, for every setting of train_val_test_split
InitSplit ==
    /\ Constructed
    /\ config \in [batch_size : {PyInt(MaxBatch)}, convert_to_rgb : {FALSE},
                   augment_train : {FALSE}, shuffle : {TRUE}, is_tfds_ds : {TRUE},
                   builds_ds_info : {FALSE}, preprocessing_function : {None}]
    /\ train_val_test_split \in {Unset} \cup SplitChoices

NextSplit ==
    \/ LoadDataset
    \/ MergeAllDatasets
    \/ ResplitDatasets
    \/ SplitValFromTrain
    \/ GetDatasetCount

SpecSplit == InitSplit /\ [][NextSplit]_vars

\* loading, splitting and merging, and the statistics
Init ==
    /\ Constructed
    /\ config \in [batch_size : {PyInt(MaxBatch)}, convert_to_rgb : {FALSE},
                   augment_train : {FALSE}, shuffle : {TRUE}, is_tfds_ds : BOOLEAN,
                   builds_ds_info : {FALSE}, preprocessing_function : {None}]
    /\ train_val_test_split \in {Unset} \cup SplitChoices

Next ==
    \/ LoadDataset
    \/ MergeAllDatasets
    \/ ResplitDatasets
    \/ SplitValFromTrain
    \/ GetDatasetCount
    \/ GetClassDistribution
    \/ CalculateClassWeights
    \/ CalculateClassImbalance
    \/ SetClassNames

Spec == Init /\ [][Next]_vars

\* count vectors of up to MaxClasses classes, and the 700 / 300 set in tenths of
\* its counts (c / n is the same double)
CountVectors ==
    UNION {[1..k -> 1..MaxCount] : k \in 1..MaxClasses} \cup {<<7, 3>>}

\* the label sequence that has the counts c: c[i] times the label i - 1
RECURSIVE Expand(_)
Expand(c) ==
    IF c = <<>> THEN <<>>
    ELSE Expand(SubSeq(c, 1, Len(c) - 1)) \o [j \in 1..c[Len(c)] |-> Len(c) - 1]

\* an object constructed with class_labels, class_counts and class_distribution
\* given (they are constructor fields), nothing loaded
InitImbalance ==
    /\ catalog = [train |-> RawDs(Samples(1, 1)), test |-> None, val |-> None]
    /\ config \in [batch_size : {PyInt(MaxBatch)}, convert_to_rgb : {FALSE},
                   augment_train : {FALSE}, shuffle : {TRUE}, is_tfds_ds : {TRUE},
                   builds_ds_info : {FALSE}, preprocessing_function : {None}]
    /\ augmentation = [random_flip |-> TRUE, random_rotation |-> TRUE,
                       random_zoom |-> TRUE, random_brightness |-> TRUE,
                       random_translation_width |-> TRUE,
                       random_translation_height |-> TRUE]
    /\ class_names = None
    /\ train_val_test_split = Unset
    /\ ds_train = Unset
    /\ ds_val = None
    /\ ds_test = None
    /\ ds_attack_train = None
    /\ ds_attack_test = None
    /\ \E c \in CountVectors :
          /\ class_labels = Arr([i \in 1..Len(c) |-> i - 1])
          /\ class_counts = Arr(c)
          /\ class_distribution = Arr(Expand(c))
    /\ ds_info = EmptyDict
    /\ pc = "idle"
    /\ ncalls = 0
    /\ call = [op |-> "__init__", exc |-> "none"]

NextImbalance == CalculateClassImbalance

SpecImbalance == InitImbalance /\ [][NextImbalance]_vars

\* the sequence of the tests: load_dataset, build_ds_info, prepare_datasets, for
\* every setting of is_tfds_ds and builds_ds_info
InitInfo ==
    /\ Constructed
    /\ config \in [batch_size : {PyInt(MaxBatch)}, convert_to_rgb : {FALSE},
                   augment_train : {FALSE}, shuffle : {TRUE}, is_tfds_ds : BOOLEAN,
                   builds_ds_info : BOOLEAN, preprocessing_function : {None}]
    /\ train_val_test_split = Unset

NextInfo ==
    \/ LoadDataset
    \/ BuildDsInfo
    \/ SetClassNames
    \/ PrepareDatasets
    \/ PrepareStatement

SpecInfo == InitInfo /\ [][NextInfo]_vars

-----------------------------------------------------------------------------
(* Claims about merging and resplitting, under SpecSplit *)

OptElems(d) == IF IsDs(d) THEN d.elems ELSE <<>>

\* C4: merge_all_datasets(100) on a loaded dataset never fails, whichever of test
\* and val are absent; it replaces train by train, then test, then val; and the
\* train count get_dataset_count reports afterwards is the sum of the train, val
\* and test counts it reported before.
MergeAllKeepsEverything ==
    [][ (call'.op = "merge_all_datasets" /\ call'.p = 100 /\ IsDs(ds_train)) =>
            /\ call'.exc = "none"
            /\ ds_train'.elems = ds_train.elems \o OptElems(ds_test) \o OptElems(ds_val)
            /\ get_dataset_count'["train"] =
                  get_dataset_count["train"] + get_dataset_count["val"]
                  + get_dataset_count["test"]
      ]_vars

\* C4 witness: a merge with the test partition absent has succeeded and train now
\* holds the loaded train samples followed by the val samples
MergeAllKeepsEverythingWitness ==
    /\ call.op = "merge_all_datasets"
    /\ call.p = 100
    /\ call.exc = "none"
    /\ ds_test = None
    /\ IsDs(ds_val)
    /\ ds_train.elems = catalog.train.elems \o ds_val.elems
    /\ get_dataset_count["train"] = catalog.train.card + ds_val.card

\* C5: merge_all_datasets(p) with p other than 100 succeeds and leaves as train the
\* first ceil(M * p / 100) samples of the train-test-val concatenation of M samples.
MergeTruncatesByArgument ==
    [][ (call'.op = "merge_all_datasets" /\ call'.p # 100 /\ IsDs(ds_train)) =>
            /\ call'.exc = "none"
            /\ ds_train'.elems =
                  Take(Merged.elems, CeilDiv(Len(Merged.elems) * call'.p, 100))
      ]_vars

\* the passed fractions can split a pool of n samples without an empty side
Feasible(f, n) ==
    LET first == SplitDataset(Samples(1, n), f[1], Quarter, TRUE)
    IN  /\ first.exc = "none"
        /\ (f[2] # 0 /\ f[3] # 0) =>
              SplitDataset(first.right, f[2], f[2] + f[3], FALSE).exc = "none"

\* C6: resplit_datasets(fractions, 100) with fractions that sum to 1 and can split
\* the merged pool of N samples succeeds; afterwards the train, val and test counts
\* sum to N and the train count is within one of t * N for the passed train fraction
\* t, whatever partitions existed before.
ResplitUsesPassedFractions ==
    [][ (/\ call'.op = "resplit_datasets"
         /\ call'.p = 100
         /\ IsDs(ds_train)
         /\ Feasible(call'.split.v, PoolSize)) =>
            /\ call'.exc = "none"
            /\ get_dataset_count'["train"] + get_dataset_count'["val"]
               + get_dataset_count'["test"] = PoolSize
            /\ Quarter * ds_train'.card - call'.split.v[1] * PoolSize < Quarter
            /\ call'.split.v[1] * PoolSize - Quarter * ds_train'.card < Quarter
      ]_vars

\* C7: a resplit that succeeds shuffles the merged pool once (seeded) and cuts it
\* in order: train first; then, with f = self.train_val_test_split, the whole
\* remainder as test when f.val = 0, else the whole remainder as val when
\* f.test = 0, else val and then test, unshuffled, val holding
\* round(val / (val + test) * remainder) samples.
RemainderAssignment ==
    [][ (call'.op = "resplit_datasets" /\ call'.exc = "none") =>
            LET f == train_val_test_split.v
                pool == Shuffled(Merged.elems)
                rest == Len(pool) - Len(ds_train'.elems)
            IN  /\ Len(ds_train'.elems) = RoundHalfEven(f[1] * Len(pool), Quarter)
                /\ IF f[2] = 0
                   THEN /\ ds_train'.elems \o ds_test'.elems = pool
                        /\ ds_val' = ds_val
                   ELSE IF f[3] = 0
                   THEN /\ ds_train'.elems \o ds_val'.elems = pool
                        /\ ds_test' = ds_test
                   ELSE /\ ds_train'.elems \o ds_val'.elems \o ds_test'.elems = pool
                        /\ Len(ds_val'.elems) = RoundHalfEven(f[2] * rest, f[2] + f[3])
      ]_vars

\* C7 witness: a three-way resplit has succeeded and left val and test non-empty
RemainderAssignmentWitness ==
    /\ call.op = "resplit_datasets"
    /\ call.exc = "none"
    /\ train_val_test_split.v[2] # 0
    /\ train_val_test_split.v[3] # 0
    /\ Len(ds_val.elems) >= 1
    /\ Len(ds_test.elems) >= 1

-----------------------------------------------------------------------------
(* Claims about the statistics, under Spec *)

LabelsOf(d) == [i \in 1..Len(d.elems) |-> LabelOf(d.elems[i])]

\* the partition a get_class_distribution call asks about
Requested(which) == IF PassedDs(which) # None THEN PassedDs(which) ELSE ds_train

\* C8: the triple get_class_distribution returns for a partition has
\* sum(counts) = cardinality of that partition, as many labels as counts, and a
\* label sequence as long as the partition.
DistributionMatchesPartition ==
    (call.op = "get_class_distribution" /\ call.exc = "none") =>
        /\ SumSeq(call.ret[2]) = Requested(call.ds).card
        /\ Len(call.ret[1]) = Len(call.ret[2])
        /\ Len(call.ret[3]) = Requested(call.ds).card

\* the key the claim gives label y
KeyOf(y, k) ==
    IF class_names # None /\ Len(class_names.v) = k
    THEN NamedKey(class_names.v, y)
    ELSE RawKey(y)

\* C9: the counts and the weights dictionaries calculate_class_weights returns have
\* one entry per distinct label of train, under the same keys ("name(y)" with
\* matching class names, y otherwise), and the weight under the key of y is
\* n / (k * count(y)).
WeightsKeyedByLabel ==
    (call.op = "calculate_class_weights" /\ call.exc = "none") =>
        LET y_train == LabelsOf(ds_train)
            labels == UniqueLabels(y_train)
            k == Len(labels)
            keys == {KeyOf(labels[i], k) : i \in 1..k}
        IN  /\ DOMAIN call.ret[1] = keys
            /\ DOMAIN call.ret[2] = keys
            /\ \A i \in 1..k :
                  call.ret[2][KeyOf(labels[i], k)] =
                      [num |-> Len(y_train), den |-> k * CountOf(y_train, labels[i])]

\* C10: on a train partition with a single class calculate_class_imbalance ends in
\* a reported error, never in a returned value.
SingleClassReported ==
    (/\ call.op = "calculate_class_imbalance"
     /\ IsDs(ds_train)
     /\ Len(UniqueLabels(LabelsOf(ds_train))) = 1) =>
        call.exc # "none"

-----------------------------------------------------------------------------
(* Claims about loading and the dataset info, under SpecInfo *)

\* C11: load_dataset on an object that is not a tfds dataset, with the base
\* _load_dataset, raises nothing, prints the warning, and leaves train unset and
\* val and test None.
NonTfdsLoadWarns ==
    (call.op = "load_dataset" /\ ~config.is_tfds_ds) =>
        /\ call.exc = "none"
        /\ call.warned
        /\ ds_train = Unset
        /\ ds_val = None
        /\ ds_test = None

\* what a filtering load_dataset call must leave of a split of the catalog
Passing(split) ==
    LET Keep(x) == LabelOf(x) \in call.fn_filter.v
    IN  SelectSeq(split.elems, Keep)

CatalogLabels ==
    {LabelOf(x) : x \in {catalog.train.elems[i] : i \in 1..Len(catalog.train.elems)}
                       \cup {OptElems(catalog.test)[i] : i \in 1..Len(OptElems(catalog.test))}
                       \cup {OptElems(catalog.val)[i] : i \in 1..Len(OptElems(catalog.val))}}

NamesCoverLabels ==
    class_names = None \/ \A y \in CatalogLabels : y < Len(class_names.v)

\* load_dataset has just returned with a train partition that holds samples, and
\* no label distribution of an empty partition is cached
TrainPopulated ==
    /\ call.op = "load_dataset"
    /\ call.exc = "none"
    /\ IsDs(ds_train)
    /\ Len(ds_train.elems) > 0
    /\ class_distribution = None \/ Len(class_distribution.v) > 0

CardOrZero(d) == IF d = None THEN 0 ELSE d.card

\* C15: when load_dataset with builds_ds_info set and a filter predicate returns,
\* the cached class counts sum to the cardinality of the filtered train partition
\* and the train, val and test counts in ds_info are the cardinalities of the
\* filtered partitions.
InfoMatchesFilteredData ==
    (/\ call.op = "load_dataset"
     /\ config.builds_ds_info
     /\ call.fn_filter # None
     /\ call.exc = "none") =>
        /\ SumSeq(class_counts.v) = ds_train.card
        /\ ds_info.train_count = ds_train.card
        /\ ds_info.val_count = CardOrZero(ds_val)
        /\ ds_info.test_count = CardOrZero(ds_test)

-----------------------------------------------------------------------------
(* Claims about the imbalance score as a function of the class counts, under *)
(* SpecImbalance                                                             *)

EqualCounts(c) == \A i \in 1..Len(c) : c[i] = c[1]

\* the score of the two-class set that is one sample less concentrated
LessConcentrated(c) == ClassImbalance(<<c[1] - 1, 1>>)

====
